---- MODULE Spec2Model ----
(***************************************************************************)
(* Model of the task store of src/app.py: the in-memory DataFrame          *)
(* st.session_state["df"], the persisted tasks.csv, load_df / save_df and  *)
(* the task operations that mutate the frame and persist it.               *)
(*                                                                         *)
(* Values are abstracted as follows.                                       *)
(*   ids        integers; NoId (0) is the empty string "" / an empty cell; *)
(*              uuid.uuid4().hex is the next unused integer (nextId)       *)
(*   dates      day numbers 0..MaxDay; Today is date.today()               *)
(*   Due Date   in memory: a day, NaT (pd.NaT) or EmptyStr ("")            *)
(*              in the file: a day (ISO text), NaTText ("NaT"), EmptyCell  *)
(*              or BadDate (unparseable text)                              *)
(*   Task       strings; NaNTitle is the float NaN pandas reads for an     *)
(*              empty cell or a default NA token such as "NA"              *)
(*   Subtasks   in memory a cell is a Python list of dicts (kind "list")   *)
(*              or a single dict (kind "dict"); in the file it is the      *)
(*              parsed JSON text: a list, an object, empty, or garbage     *)
(*   shown      what the script last put on the page: the grouped task     *)
(*              list, or the status of one due date                        *)
(***************************************************************************)
EXTENDS Integers, Sequences, FiniteSets, TLC

VARIABLES df, file, nextId, last, calls, shown

vars == <<df, file, nextId, last, calls, shown>>

\* ---------------------------------------------------------------- bounds
MaxTasks == 2
MaxSubs == 2
MaxDay == 4
MaxId == 5
MaxCalls == 3

\* ------------------------------------------------------------ value model
NoId == 0
NaT == 0 - 1
EmptyStr == 0 - 2
NaTText == 0 - 1
EmptyCell == 0 - 2
BadDate == 0 - 3
NaNTitle == "<nan>"
NaNCell == "<nan>"
Today == 1

Expected == {"id", "Task", "Subtasks", "Due Date", "Done"}
LegacyCols == {"Subtask 1", "Subtask 2"}

\* str.strip() on the strings the model uses
Strip(t) == IF t = " " THEN "" ELSE IF t = " a" THEN "a" ELSE t

\* not (text and str(text).strip())
Blank(t) == Strip(t) = ""

\* pandas.read_csv default NA tokens: an empty cell, "NA", ... read as NaN
IsNA(t) == t \in {"", "NA"}

EmptyList == [kind |-> "list", items |-> <<>>]
ListCell(s) == [kind |-> "list", items |-> s]
DictCell(d) == [kind |-> "dict", items |-> <<d>>]

\* ---------------------------------------------------------------- load_df
\* Lines 24-30: a missing expected column is added holding "" in every row.
CellOf(f, r, col, absent) == IF col \in f.cols THEN r[col] ELSE absent

\* Line 33: pd.to_datetime(..., errors="coerce").dt.date
LoadDue(c) == IF c >= 0 THEN c ELSE NaT

\* the texts read_csv takes as booleans
TrueTexts == {"True", "true"}
FalseTexts == {"False", "false"}

\* Lines 37-40: df["Done"].astype(bool) on the column read_csv inferred.
\*   column added by line 30 (all "")        -> object of "", bool("") False
\*   all cells True/False                    -> bool dtype, kept
\*   all cells 1/0                           -> int64, nonzero is True
\*   cells 1/0/empty                         -> float64, NaN is True
\*   cells True/False/empty                  -> object of bools and NaN, NaN True
\*   any other text in the column            -> object of str and NaN, all True
\* astype(bool) does not raise on any of these, so line 40 never runs.
LoadDone(f, i) ==
    LET col == {f.rows[k]["Done"] : k \in 1..Len(f.rows)}
        c == f.rows[i]["Done"]
    IN IF "Done" \notin f.cols THEN FALSE
       ELSE IF col \subseteq TrueTexts \cup FalseTexts THEN c \in TrueTexts
       ELSE IF col \subseteq {"1", "0", ""} THEN c # "0"
       ELSE IF col \subseteq TrueTexts \cup FalseTexts \cup {""} THEN c \notin FalseTexts
       ELSE TRUE

\* read_csv of the Task column
LoadTitle(c) == IF IsNA(c) THEN NaNTitle ELSE c

\* read_csv of a legacy column
LoadLegacyCell(c) == IF IsNA(c) THEN NaNCell ELSE c

\* Lines 42-45: ids are minted only when the id column holds a null; the
\* column added by line 30 holds "" (not null), so its ids stay "".
\* Result: the id of row i, given the first unused id n.
NullIdsBefore(f, i) == Cardinality({k \in 1..(i - 1) : f.rows[k]["id"] = NoId})

LoadId(f, i, n) ==
    IF "id" \notin f.cols THEN NoId
    ELSE IF f.rows[i]["id"] = NoId THEN n + NullIdsBefore(f, i)
    ELSE f.rows[i]["id"]

MintedTaskIds(f) ==
    IF "id" \notin f.cols THEN 0
    ELSE Cardinality({k \in 1..Len(f.rows) : f.rows[k]["id"] = NoId})

\* Lines 57-63: one parsed JSON entry -> a subtask, or dropped.  An entry is
\* [isDict, id, text, done]; a non-dict entry s has text str(s).
\* acc = [subs, n]
LoadEntry(acc, e) ==
    LET hasId == e.isDict /\ e.id # NoId
        sid == IF hasId THEN e.id ELSE acc.n
        done == IF e.isDict THEN e.done ELSE FALSE
    IN IF Blank(e.text) THEN acc
       ELSE [subs |-> Append(acc.subs, [id |-> sid, text |-> e.text, done |-> done]),
             n |-> IF hasId THEN acc.n ELSE acc.n + 1]

RECURSIVE LoadEntries(_, _)
LoadEntries(acc, es) ==
    IF es = <<>> THEN acc ELSE LoadEntries(LoadEntry(acc, Head(es)), Tail(es))

\* a migration that keeps whitespace-only legacy values
LegacyTextsKeepBlank(f, r) ==
    LET one(col) ==
            IF col \in f.cols /\ LoadLegacyCell(r[col]) # NaNCell
            THEN <<Strip(r[col])>> ELSE <<>>
    IN one("Subtask 1") \o one("Subtask 2")

\* Lines 67-75: legacy "Subtask 1"/"Subtask 2" values of one row
LegacyTexts(f, r) ==
    LET one(col) ==
            IF col \in f.cols /\ LoadLegacyCell(r[col]) # NaNCell /\ ~Blank(r[col])
            THEN <<Strip(r[col])>> ELSE <<>>
    IN one("Subtask 1") \o one("Subtask 2")

RECURSIVE LoadLegacy(_, _)
LoadLegacy(acc, texts) ==
    IF texts = <<>> THEN acc
    ELSE LoadLegacy([subs |-> Append(acc.subs,
                                     [id |-> acc.n, text |-> Head(texts), done |-> FALSE]),
                     n |-> acc.n + 1],
                    Tail(texts))

\* Lines 49-76 for one row; n is the first unused id.  Result [subs, n].
LoadSubs(f, r, n) ==
    LET cell == CellOf(f, r, "Subtasks", [kind |-> "empty", items |-> <<>>])
        start == [subs |-> <<>>, n |-> n]
    IN CASE cell.kind = "list" -> LoadEntries(start, cell.items)
         [] cell.kind = "dict" -> start
         [] cell.kind = "garbage" -> start
         [] OTHER -> LoadLegacy(start, LegacyTexts(f, r))

\* Lines 47-78 over the rows; acc = [rows, n]
RECURSIVE LoadRows(_, _, _)
LoadRows(f, i, acc) ==
    IF i > Len(f.rows) THEN acc
    ELSE LET r == f.rows[i]
             s == LoadSubs(f, r, acc.n)
             row == [id |-> LoadId(f, i, acc.id0),
                     Task |-> LoadTitle(CellOf(f, r, "Task", "")),
                     Subtasks |-> ListCell(s.subs),
                     Due |-> LoadDue(CellOf(f, r, "Due Date", EmptyCell)),
                     Done |-> LoadDone(f, i),
                     S1 |-> LoadLegacyCell(CellOf(f, r, "Subtask 1", "")),
                     S2 |-> LoadLegacyCell(CellOf(f, r, "Subtask 2", ""))]
         IN LoadRows(f, i + 1, [rows |-> Append(acc.rows, row), n |-> s.n, id0 |-> acc.id0])

NoFile == [exists |-> FALSE, cols |-> {}, rows |-> <<>>]

\* load_df: [df, n] for the file f with n the first unused id
load_df(f, n) ==
    IF ~f.exists
    THEN [df |-> [legacy |-> {}, rows |-> <<>>], n |-> n]
    ELSE LET r == LoadRows(f, 1, [rows |-> <<>>, n |-> n + MintedTaskIds(f), id0 |-> n])
         IN [df |-> [legacy |-> f.cols \cap LegacyCols, rows |-> r.rows], n |-> r.n]

\* ---------------------------------------------------------------- save_df
\* Lines 90-104: serialize_subs.  A list keeps its non-blank entries; any
\* other cell (a dict) is dumped as it is, which is a JSON object.
serialize_subs(cell) ==
    IF cell.kind = "list"
    THEN [kind |-> "list",
          items |-> [k \in 1..Len(SelectSeq(cell.items, LAMBDA s : ~Blank(s.text))) |->
                       LET s == SelectSeq(cell.items, LAMBDA x : ~Blank(x.text))[k]
                       IN [isDict |-> TRUE, id |-> s.id, text |-> s.text, done |-> s.done]]]
    ELSE [kind |-> "dict",
          items |-> [k \in 1..Len(cell.items) |->
                       [isDict |-> TRUE, id |-> cell.items[k].id,
                        text |-> cell.items[k].text, done |-> cell.items[k].done]]]

\* Line 108: d.isoformat() if isinstance(d, date) else "".  pd.NaT is an
\* instance of datetime (hence of date) and NaT.isoformat() is "NaT".
SaveDue(d) == IF d >= 0 THEN d ELSE IF d = NaT THEN NaTText ELSE EmptyCell

\* to_csv of a string-or-NaN cell
SaveText(t) == IF t = NaNTitle THEN "" ELSE t

SaveRow(r) ==
    [id |-> r.id,
     Task |-> SaveText(r.Task),
     Subtasks |-> serialize_subs(r.Subtasks),
     Due |-> SaveDue(r.Due),
     Done |-> IF r.Done THEN "True" ELSE "False",
     S1 |-> SaveText(r.S1),
     S2 |-> SaveText(r.S2)]

\* Lines 86-109: the whole frame replaces the file
save_df(d) ==
    [exists |-> TRUE,
     cols |-> Expected \cup d.legacy,
     rows |-> [k \in 1..Len(d.rows) |->
                 [c \in Expected \cup LegacyCols |->
                    CASE c = "id" -> SaveRow(d.rows[k]).id
                      [] c = "Task" -> SaveRow(d.rows[k]).Task
                      [] c = "Subtasks" -> SaveRow(d.rows[k]).Subtasks
                      [] c = "Due Date" -> SaveRow(d.rows[k]).Due
                      [] c = "Done" -> SaveRow(d.rows[k]).Done
                      [] c = "Subtask 1" -> SaveRow(d.rows[k]).S1
                      [] OTHER -> SaveRow(d.rows[k]).S2]]]

\* ---------------------------------------------------------------- display
\* date.max: later than every day of the model
DateMax == MaxDay + 1

\* Line 302: pd.to_datetime(..., errors="coerce").dt.date
DisplayDue(d) == IF d >= 0 THEN d ELSE NaT

\* Line 303: __sort_due
SortDue(d) == IF DisplayDue(d) = NaT THEN DateMax ELSE DisplayDue(d)

\* the order of str on the titles of the model; NaN goes last (na_position)
TitleRank(t) ==
    CASE t = "A" -> 1
      [] t = "B" -> 2
      [] t = "C" -> 3
      [] t = NaNTitle -> 5
      [] OTHER -> 4

\* a stable sort of rows by their keys, pairs <<first, second>> compared
\* in that order: rows with equal keys keep their order.  sort_values on
\* several keys is a stable lexsort; on one key it is numpy's quicksort, an
\* insertion sort (stable) on the up to 16 rows it gets here.
SortRows(rows, keys) ==
    LET N == Len(rows)
        less(i, j) ==
            \/ keys[i][1] < keys[j][1]
            \/ keys[i][1] = keys[j][1] /\ keys[i][2] < keys[j][2]
        before(i, j) == less(i, j) \/ (~less(j, i) /\ i < j)
    IN [k \in 1..N |->
          rows[CHOOSE i \in 1..N : Cardinality({j \in 1..N : before(j, i)}) = k - 1]]

\* Line 304: sort_values(by=["__sort_due", "Task"], na_position="last")
sort_values(d) ==
    SortRows(d.rows,
             [i \in 1..Len(d.rows) |-> <<SortDue(d.rows[i].Due), TitleRank(d.rows[i].Task)>>])

\* Lines 305-306: the rows with this Done flag, in display order
Partition(d, done) == SelectSeq(sort_values(d), LAMBDA r : r.Done = done)

\* Line 439: comp.sort_values(by="Due Date", na_position="last")
SortByDue(rows) == SortRows(rows, [i \in 1..Len(rows) |-> <<SortDue(rows[i].Due), 0>>])

\* Lines 416-426, 440-441: the distinct due dates, sorted by key_sort
grouped_keys(rows) ==
    LET S == {DisplayDue(rows[k].Due) : k \in 1..Len(rows)}
    IN [k \in 1..Cardinality(S) |->
          CHOOSE v \in S : Cardinality({w \in S : SortDue(w) < SortDue(v)}) = k - 1]

\* Lines 430, 445: the rows whose due date equals the key.  For the key NaT
\* the comparison `column == pd.NaT` is False in every row (a comparison
\* with NaT never holds), so the group under "No Due Date" has no rows.
Group(rows, key) ==
    SelectSeq(rows, LAMBDA r : key # NaT /\ DisplayDue(r.Due) = key)

\* what a rendered row shows of its task
Shown(r) == [id |-> r.id, Task |-> r.Task, Due |-> DisplayDue(r.Due)]

\* Lines 427-432, 442-448: one header per key, then the rows of its group
Groups(rows) ==
    [k \in 1..Len(grouped_keys(rows)) |->
       [key |-> grouped_keys(rows)[k],
        rows |-> [j \in 1..Len(Group(rows, grouped_keys(rows)[k])) |->
                    Shown(Group(rows, grouped_keys(rows)[k])[j])]]]

\* a status_indicator that counts the day itself as late
status_indicatorLate(due_date) ==
    IF due_date < 0 THEN "no-date"
    ELSE IF due_date <= Today THEN "overdue"
    ELSE IF due_date = Today THEN "today"
    ELSE "upcoming"

\* Lines 235-248: status_indicator.  None, NaN, "" and NaT are "no-date",
\* and so is text that pd.to_datetime cannot parse.
status_indicator(due_date) ==
    IF due_date < 0 THEN "no-date"
    ELSE IF due_date < Today THEN "overdue"
    ELSE IF due_date = Today THEN "today"
    ELSE "upcoming"

\* nothing rendered yet
NotShown ==
    [op |-> "none", pending |-> <<>>, completed |-> <<>>, due |-> NaT, status |-> ""]

\* ------------------------------------------------------------- operations
\* the run is cut after MaxCalls calls
Budget == calls < MaxCalls /\ calls' = calls + 1

\* mask = df["id"] == task_id
Mask(d, id) == {i \in 1..Len(d.rows) : d.rows[i].id = id}

First(S) == CHOOSE x \in S : \A y \in S : x <= y

\* df.loc[mask, col] = scalar
SetCol(d, mask, col, v) ==
    [d EXCEPT !.rows = [i \in 1..Len(d.rows) |->
                          IF i \in mask THEN [d.rows[i] EXCEPT ![col] = v] ELSE d.rows[i]]]

\* df.loc[mask, "Subtasks"] = subs with subs a Python list.  pandas takes a
\* list as one value per selected row: with len(subs) equal to the number
\* of selected rows the k-th selected row receives the element subs[k] (a
\* dict, not the list); with any other length it raises ValueError ("Must
\* have equal len keys and value when setting with an iterable").
LocAssignFits(mask, subs) == Len(subs) = Cardinality(mask)

LocAssign(d, mask, subs) ==
    [d EXCEPT !.rows = [i \in 1..Len(d.rows) |->
        IF i \in mask
        THEN [d.rows[i] EXCEPT
                !.Subtasks = DictCell(subs[Cardinality({j \in mask : j <= i})])]
        ELSE d.rows[i]]]

\* the record kept of the last call: the operation, the task id and the
\* value it was given (n: the checkbox value, the days, or the number of
\* subtask lines of the form; 0 otherwise), the
\* exception that left it ("none" when it returned), and whether the call
\* before it was the same call
Call(op, id, n, exc) ==
    [op |-> op, id |-> id, n |-> n, exc |-> exc,
     again |-> last.op = op /\ last.id = id /\ last.n = n]

\* ------------------------------------------------------------------ inputs
\* an id no task and no subtask has
AbsentId == MaxId + 1

\* the ids a caller passes: those of the tasks, and one that is absent
TaskIdArgs == {df.rows[i].id : i \in 1..Len(df.rows)} \cup {AbsentId}

\* the subtask ids a caller passes: those in the frame, and one that is absent
SubIdArgs ==
    UNION {{df.rows[i].Subtasks.items[k].id : k \in 1..Len(df.rows[i].Subtasks.items)} :
             i \in 1..Len(df.rows)}
    \cup {AbsentId}

\* the form: <<title, subtask lines, due date>>
AddInputs ==
    {<<"", <<"a">>, Today>>, <<"A", <<>>, Today>>, <<"A", <<"a">>, Today + 1>>,
     <<"A", <<" ", " a">>, Today>>}

\* the edit panel: <<title, due date>>
EditInputs == {<<"B", 0>>, <<"NA", EmptyStr>>}

SubTexts == {" a", " "}
SnoozeDays == {1, 3}

\* -------------------------------------------------------------- tasks.csv
Row(id, task, subs, due, done, s1, s2) ==
    [c \in Expected \cup LegacyCols |->
       CASE c = "id" -> id
         [] c = "Task" -> task
         [] c = "Subtasks" -> subs
         [] c = "Due Date" -> due
         [] c = "Done" -> done
         [] c = "Subtask 1" -> s1
         [] OTHER -> s2]

NoSubs == [kind |-> "empty", items |-> <<>>]
Entry(id, text, done) == [isDict |-> TRUE, id |-> id, text |-> text, done |-> done]

\* a JSON entry that is no object: a bare string or number
Bare(text) == [isDict |-> FALSE, id |-> NoId, text |-> text, done |-> FALSE]
JsonList(es) == [kind |-> "list", items |-> es]
Garbage == [kind |-> "garbage", items |-> <<>>]

\* files written by this version of the program (all five columns)
ModernFiles ==
    {[exists |-> TRUE, cols |-> Expected,
      rows |-> <<Row(id, "A", subs, 2, "False", "", "")>>] :
        id \in {1, NoId},
        subs \in {JsonList(<<>>), JsonList(<<Entry(2, "a", FALSE)>>)}}
    \cup
    {[exists |-> TRUE, cols |-> Expected,
      rows |-> <<Row(1, "A", JsonList(<<>>), EmptyCell, "True", "", "")>>]}

\* files edited by hand or written by other tools
OddFiles ==
    {[exists |-> TRUE, cols |-> Expected,
      rows |-> <<Row(1, "A", Garbage, BadDate, "", "", "")>>],
     [exists |-> TRUE, cols |-> Expected,
      rows |-> <<Row(1, "NA",
                     JsonList(<<Entry(NoId, "a", TRUE), Entry(2, " ", FALSE)>>),
                     NaTText, "no", "", "")>>],
     [exists |-> TRUE, cols |-> Expected,
      rows |-> <<Row(1, "A", JsonList(<<Bare("b"), Entry(2, "a", FALSE)>>),
                     2, "False", "", "")>>]}

\* files of the older versions: no id column, no Subtasks column
LegacyFiles ==
    {[exists |-> TRUE, cols |-> {"Task", "Due Date", "Done"} \cup LegacyCols,
      rows |-> <<Row(NoId, "A", NoSubs, 2, "False", s[1], s[2])>>] :
        s \in {<<"a", "">>, <<" a", "b">>, <<" ", "b">>, <<"NA", "">>, <<"", "">>}}
    \cup
    {[exists |-> TRUE, cols |-> {"Task", "Due Date", "Done"} \cup LegacyCols,
      rows |-> <<Row(NoId, "A", NoSubs, 2, "False", "a", ""),
                 Row(NoId, "B", NoSubs, EmptyCell, "True", "", "b")>>]}

\* a file whose Done column holds other spellings
DoneFiles ==
    {[exists |-> TRUE, cols |-> Expected,
      rows |-> <<Row(1, "A", JsonList(<<>>), 2, "yes", "", ""),
                 Row(2, "B", JsonList(<<>>), EmptyCell, "false", "", "")>>]}

InitFiles == {NoFile} \cup ModernFiles \cup OddFiles \cup LegacyFiles \cup DoneFiles

\* ids 1 and 2 occur in the initial files; minted ids start above them
FirstMint == 3

Loaded == [op |-> "load", id |-> NoId, n |-> 0, exc |-> "none", again |-> FALSE]

\* Lines 251-253: a session starts by loading tasks.csv
Init ==
    /\ file \in InitFiles
    /\ df = load_df(file, FirstMint).df
    /\ nextId = load_df(file, FirstMint).n
    /\ last = Loaded
    /\ calls = 0
    /\ shown = NotShown

\* a new session (st.session_state is empty again): lines 251-253
Restart ==
    /\ Budget
    /\ UNCHANGED shown
    /\ load_df(file, nextId).n <= MaxId + 1
    /\ df' = load_df(file, nextId).df
    /\ nextId' = load_df(file, nextId).n
    /\ last' = Loaded
    /\ UNCHANGED file

\* a form handler that forgets the "if txt:" test of line 274
NewSubsKeepBlank(lines, n) ==
    [k \in 1..Len(lines) |-> [id |-> n + k - 1, text |-> Strip(lines[k]), done |-> FALSE]]

\* Lines 267-285: the "Add to List" form
NewSubs(lines, n) ==
    LET kept == SelectSeq(lines, LAMBDA l : Strip(l) # "")
    IN [k \in 1..Len(kept) |-> [id |-> n + k - 1, text |-> Strip(kept[k]), done |-> FALSE]]

NewRow(title, lines, due, n) ==
    [id |-> n + Len(NewSubs(lines, n)),
     Task |-> title,
     Subtasks |-> ListCell(NewSubs(lines, n)),
     Due |-> due,
     Done |-> FALSE,
     S1 |-> NaNCell,
     S2 |-> NaNCell]

AddTask(title, lines, due) ==
    /\ Budget
    /\ UNCHANGED shown
    /\ last' = Call("add_task", NoId, Len(lines), "none")
    /\ IF title = ""
       THEN UNCHANGED <<df, file, nextId>>
       ELSE /\ Len(df.rows) < MaxTasks
            /\ nextId + Len(NewSubs(lines, nextId)) <= MaxId
            /\ df' = [df EXCEPT !.rows = Append(@, NewRow(title, lines, due, nextId))]
            /\ nextId' = nextId + Len(NewSubs(lines, nextId)) + 1
            /\ file' = save_df(df')

\* a checkbox handler that flips the flag instead of storing the value
SetDoneDfFlip(d, id, v) ==
    [d EXCEPT !.rows = [i \in 1..Len(d.rows) |->
        IF i \in Mask(d, id) THEN [d.rows[i] EXCEPT !.Done = ~@] ELSE d.rows[i]]]

\* Lines 120-132: set_done_from_checkbox
SetDoneDf(d, id, v) == SetCol(d, Mask(d, id), "Done", v)

SetDone(id, v) ==
    /\ Budget
    /\ UNCHANGED shown
    /\ last' = Call("set_done", id, IF v THEN 1 ELSE 0, "none")
    /\ UNCHANGED nextId
    /\ IF Mask(df, id) = {}
       THEN UNCHANGED <<df, file>>
       ELSE /\ df' = SetDoneDf(df, id, v)
            /\ file' = save_df(df')

\* Lines 350-351, 408-409: the delete button calls delete_task, a name the
\* module never defines: the call raises NameError and nothing is removed.
DeleteTask(id) ==
    /\ Budget
    /\ UNCHANGED shown
    /\ last' = Call("delete_task", id, 0, "NameError")
    /\ UNCHANGED <<df, file, nextId>>

\* an edit that rebuilds the row and loses its subtasks
SaveEditsDfDropSubs(d, id, title, due) ==
    SetCol(SetCol(SetCol(d, Mask(d, id), "Task", title), Mask(d, id), "Due", due),
           Mask(d, id), "Subtasks", EmptyList)

\* Lines 197-213: save_edits; due = EmptyStr is a falsy new_due
SaveEditsDf(d, id, title, due) ==
    SetCol(SetCol(d, Mask(d, id), "Task", title), Mask(d, id), "Due", due)

SaveEdits(id, title, due) ==
    /\ Budget
    /\ UNCHANGED shown
    /\ last' = Call("edit_task", id, 0, "none")
    /\ UNCHANGED nextId
    /\ IF Mask(df, id) = {}
       THEN UNCHANGED <<df, file>>
       ELSE /\ df' = SaveEditsDf(df, id, title, due)
            /\ file' = save_df(df')

\* Lines 224-228: isinstance(current, date) holds for a date and for pd.NaT
\* (NaTType derives from datetime); NaT + timedelta is NaT.
SnoozedDue(current, days) ==
    IF current >= 0 THEN current + days
    ELSE IF current = NaT THEN NaT
    ELSE Today + days

\* Lines 216-232: snooze_task
SnoozeDf(d, id, days) ==
    SetCol(d, Mask(d, id), "Due", SnoozedDue(d.rows[First(Mask(d, id))].Due, days))

Snooze(id, days) ==
    /\ Budget
    /\ UNCHANGED shown
    /\ last' = Call("snooze", id, days, "none")
    /\ UNCHANGED nextId
    /\ IF Mask(df, id) = {}
       THEN UNCHANGED <<df, file>>
       ELSE /\ SnoozedDue(df.rows[First(Mask(df, id))].Due, days) <= MaxDay
            /\ df' = SnoozeDf(df, id, days)
            /\ file' = save_df(df')

\* subs = df.loc[mask, "Subtasks"].iat[0] or []: the cell of the first
\* selected row.  The list in the cell is the object the handlers mutate.
CellAt(d, id) == d.rows[First(Mask(d, id))].Subtasks

\* a change of the list that also derives the task's Done from its subtasks
WithListDerivesDone(d, id, items) ==
    [d EXCEPT !.rows[First(Mask(d, id))] =
        [@ EXCEPT !.Subtasks = ListCell(items),
                  !.Done = \A k \in 1..Len(items) : items[k].done]]

\* the frame after an in-place change of that list
WithList(d, id, items) ==
    [d EXCEPT !.rows[First(Mask(d, id))].Subtasks = ListCell(items)]

\* Lines 147-151: the first subtask with this id gets the new flag
MarkDone(items, sub, v) ==
    LET hits == {k \in 1..Len(items) : items[k].id = sub}
    IN [k \in 1..Len(items) |->
          IF hits # {} /\ k = First(hits) THEN [items[k] EXCEPT !.done = v] ELSE items[k]]

\* Lines 135-156: set_subtask_done.  Iterating a dict cell yields its keys
\* (strings), so s.get raises AttributeError.
SetSubtaskDoneOutcome(d, id, sub, v) ==
    IF Mask(d, id) = {} THEN [df |-> d, save |-> FALSE, exc |-> "none"]
    ELSE IF CellAt(d, id).kind = "dict"
    THEN [df |-> d, save |-> FALSE, exc |-> "AttributeError"]
    ELSE LET items == CellAt(d, id).items
             marked == MarkDone(items, sub, v)
         IN IF \A k \in 1..Len(items) : items[k].id # sub
            THEN [df |-> d, save |-> FALSE, exc |-> "none"]
            ELSE IF LocAssignFits(Mask(d, id), marked)
            THEN [df |-> LocAssign(WithList(d, id, marked), Mask(d, id), marked),
                  save |-> TRUE, exc |-> "none"]
            ELSE [df |-> WithList(d, id, marked), save |-> FALSE, exc |-> "ValueError"]

SetSubtaskDone(id, sub, v) ==
    LET out == SetSubtaskDoneOutcome(df, id, sub, v)
    IN /\ Budget
       /\ UNCHANGED shown
       /\ last' = Call("set_subtask_done", id, IF v THEN 1 ELSE 0, out.exc)
       /\ UNCHANGED nextId
       /\ df' = out.df
       /\ file' = IF out.save THEN save_df(out.df) ELSE file

\* an add_subtask without the "if not text: return" of lines 162-163
AddSubtaskOutcomeKeepBlank(d, id, text, n) ==
    IF Mask(d, id) = {}
    THEN [df |-> d, save |-> FALSE, exc |-> "none", minted |-> 0]
    ELSE IF CellAt(d, id).kind = "dict"
    THEN [df |-> d, save |-> FALSE, exc |-> "AttributeError", minted |-> 0]
    ELSE LET items == CellAt(d, id).items
             subs == Append(items, [id |-> n, text |-> Strip(text), done |-> FALSE])
             d1 == IF items = <<>> THEN d ELSE WithList(d, id, subs)
         IN IF LocAssignFits(Mask(d, id), subs)
            THEN [df |-> LocAssign(d1, Mask(d, id), subs),
                  save |-> TRUE, exc |-> "none", minted |-> 1]
            ELSE [df |-> d1, save |-> FALSE, exc |-> "ValueError", minted |-> 1]

\* Lines 159-179: add_subtask.  An empty list is falsy, so "or []" yields a
\* new list and the cell is untouched until the assignment; a non-empty
\* list is appended to in place.  A dict cell has no append.
AddSubtaskOutcome(d, id, text, n) ==
    IF Strip(text) = "" \/ Mask(d, id) = {}
    THEN [df |-> d, save |-> FALSE, exc |-> "none", minted |-> 0]
    ELSE IF CellAt(d, id).kind = "dict"
    THEN [df |-> d, save |-> FALSE, exc |-> "AttributeError", minted |-> 0]
    ELSE LET items == CellAt(d, id).items
             subs == Append(items, [id |-> n, text |-> Strip(text), done |-> FALSE])
             d1 == IF items = <<>> THEN d ELSE WithList(d, id, subs)
         IN IF LocAssignFits(Mask(d, id), subs)
            THEN [df |-> LocAssign(d1, Mask(d, id), subs),
                  save |-> TRUE, exc |-> "none", minted |-> 1]
            ELSE [df |-> d1, save |-> FALSE, exc |-> "ValueError", minted |-> 1]

AddSubtask(id, text) ==
    LET out == AddSubtaskOutcome(df, id, text, nextId)
    IN /\ Budget
       /\ UNCHANGED shown
       /\ last' = Call("add_subtask", id, 0, out.exc)
       /\ out.minted = 1 => /\ nextId <= MaxId
                            /\ Len(CellAt(df, id).items) < MaxSubs
       /\ nextId' = nextId + out.minted
       /\ df' = out.df
       /\ file' = IF out.save THEN save_df(out.df) ELSE file

\* Lines 182-194: delete_subtask
DeleteSubtaskOutcome(d, id, sub) ==
    IF Mask(d, id) = {} THEN [df |-> d, save |-> FALSE, exc |-> "none"]
    ELSE IF CellAt(d, id).kind = "dict"
    THEN [df |-> d, save |-> FALSE, exc |-> "AttributeError"]
    ELSE LET new_subs == SelectSeq(CellAt(d, id).items, LAMBDA s : s.id # sub)
         IN IF LocAssignFits(Mask(d, id), new_subs)
            THEN [df |-> LocAssign(d, Mask(d, id), new_subs), save |-> TRUE, exc |-> "none"]
            ELSE [df |-> d, save |-> FALSE, exc |-> "ValueError"]

DeleteSubtask(id, sub) ==
    LET out == DeleteSubtaskOutcome(df, id, sub)
    IN /\ Budget
       /\ UNCHANGED shown
       /\ last' = Call("delete_subtask", id, 0, out.exc)
       /\ UNCHANGED nextId
       /\ df' = out.df
       /\ file' = IF out.save THEN save_df(out.df) ELSE file

\* ------------------------------------------------------------ specification
Next ==
    \/ \E a \in AddInputs : AddTask(a[1], a[2], a[3])
    \/ \E id \in TaskIdArgs, v \in BOOLEAN : SetDone(id, v)
    \/ \E id \in TaskIdArgs : DeleteTask(id)
    \/ \E id \in TaskIdArgs, t \in SubTexts : AddSubtask(id, t)
    \/ \E id \in TaskIdArgs, sub \in SubIdArgs, v \in BOOLEAN : SetSubtaskDone(id, sub, v)
    \/ \E id \in TaskIdArgs, sub \in SubIdArgs : DeleteSubtask(id, sub)
    \/ \E id \in TaskIdArgs, e \in EditInputs : SaveEdits(id, e[1], e[2])
    \/ \E id \in TaskIdArgs, n \in SnoozeDays : Snooze(id, n)
    \/ Restart

Spec == Init /\ [][Next]_vars

\* ------------------------------------------------------- the rendered page
\* number of tasks on the page
ViewTasks == 3

\* <<title, due date, done>> of the tasks on the page
ViewRows ==
    {<<"B", 3, FALSE>>, <<"A", NaT, FALSE>>, <<"C", 0, FALSE>>,
     <<"A", 3, FALSE>>, <<"B", NaT, TRUE>>, <<"A", 0, TRUE>>}

ViewFrames ==
    {[legacy |-> {},
      rows |-> [i \in 1..ViewTasks |->
                  [id |-> i, Task |-> pick[i][1], Subtasks |-> EmptyList,
                   Due |-> pick[i][2], Done |-> pick[i][3],
                   S1 |-> NaNCell, S2 |-> NaNCell]]] :
       pick \in [1..ViewTasks -> ViewRows]}

\* the due dates status_indicator is given
StatusArgs == 0..MaxDay \cup {NaT, EmptyStr, BadDate}

\* a session holding a saved collection, before the page is drawn
InitView ==
    /\ df \in ViewFrames
    /\ file = save_df(df)
    /\ nextId = ViewTasks + 1
    /\ last = Loaded
    /\ calls = 0
    /\ shown = NotShown

\* Lines 295-448: the script draws the list
Render ==
    /\ df.rows # <<>>
    /\ shown' = [op |-> "render",
                 pending |-> Groups(Partition(df, FALSE)),
                 completed |-> Groups(SortByDue(Partition(df, TRUE))),
                 due |-> NaT, status |-> ""]
    /\ UNCHANGED <<df, file, nextId, last, calls>>

\* Line 320: the status of one due date
Classify(due) ==
    /\ shown' = [op |-> "status", pending |-> <<>>, completed |-> <<>>,
                 due |-> due, status |-> status_indicator(due)]
    /\ UNCHANGED <<df, file, nextId, last, calls>>

NextView ==
    \/ Render
    \/ \E due \in StatusArgs : Classify(due)

SpecView == InitView /\ [][NextView]_vars

\* ------------------------------------------------------------------ claims
\* "no due date": pd.NaT and "" are the same state of a task
NormDue(d) == IF d >= 0 THEN d ELSE NaT

\* a subtask sequence without its blank-text entries
NormSubs(cell) ==
    IF cell.kind = "list"
    THEN ListCell(SelectSeq(cell.items, LAMBDA s : ~Blank(s.text)))
    ELSE cell

\* a collection, field by field, after normalization
Norm(d) ==
    [i \in 1..Len(d.rows) |->
       [id |-> d.rows[i].id, Task |-> d.rows[i].Task, Due |-> NormDue(d.rows[i].Due),
        Done |-> d.rows[i].Done, Subtasks |-> NormSubs(d.rows[i].Subtasks)]]

TaskOps ==
    {"add_task", "set_done", "delete_task", "edit_task", "snooze", "add_subtask",
     "set_subtask_done", "delete_subtask"}

\* C1: every task operation that changes the in-memory collection saves
\* it before it returns: once the operation is over, loading the persisted
\* file yields a collection field-wise equal (after normalization) to the
\* in-memory collection.
C1_FileMatchesMemory ==
    [][(last'.op \in TaskOps /\ df' # df) =>
          Norm(load_df(file', nextId').df) = Norm(df')]_vars

\* C2: round trip: load(save(C)) is field-wise equal to C after
\* normalization, for every collection C the program holds.
C2_RoundTrip == Norm(load_df(save_df(df), nextId).df) = Norm(df)

\* C3: edit_task on an existing task overwrites that task's title and due
\* date and leaves every id, done flag and subtask sequence as it was.
C3_EditKeepsIdsAndSubtasks ==
    [][\A id \in 0..AbsentId, e \in EditInputs :
         (SaveEdits(id, e[1], e[2]) /\ Mask(df, id) # {}) =>
            /\ Len(df'.rows) = Len(df.rows)
            /\ \A i \in 1..Len(df.rows) :
                 /\ df'.rows[i].id = df.rows[i].id
                 /\ df'.rows[i].Done = df.rows[i].Done
                 /\ df'.rows[i].Subtasks = df.rows[i].Subtasks
                 /\ i \in Mask(df, id) =>
                      df'.rows[i].Task = e[1] /\ df'.rows[i].Due = e[2]
                 /\ i \notin Mask(df, id) => df'.rows[i] = df.rows[i]]_vars

\* an edited task that has a subtask
C3_Witness ==
    /\ last.op = "edit_task"
    /\ \E i \in 1..Len(df.rows) :
         /\ df.rows[i].id = last.id
         /\ df.rows[i].Task \in {e[1] : e \in EditInputs}
         /\ df.rows[i].Subtasks.items # <<>>

FileIds == {file.rows[i]["id"] : i \in 1..Len(file.rows)}

\* C4: after delete_task(id) the task is in neither the in-memory
\* collection nor the persisted file.
C4_DeleteRemovesTask ==
    last.op = "delete_task" => Mask(df, last.id) = {} /\ last.id \notin FileIds

\* a task id or a subtask id the collection does not hold
NoSuchTask(id) == Mask(df, id) = {}
NoSuchSub(id, sub) ==
    \/ NoSuchTask(id)
    \/ \A k \in 1..Len(CellAt(df, id).items) : CellAt(df, id).items[k].id # sub

Untouched == df' = df /\ file' = file /\ last'.exc = "none"

\* C5: an operation given a task id that is not in the collection, or a
\* subtask operation given a sub_id that is not in the task's subtasks,
\* changes neither the collection nor the file and raises nothing.
C5_NotFoundIsNoOp ==
    [][\A id \in 0..AbsentId :
         /\ \A v \in BOOLEAN : SetDone(id, v) /\ NoSuchTask(id) => Untouched
         /\ \A e \in EditInputs :
              SaveEdits(id, e[1], e[2]) /\ NoSuchTask(id) => Untouched
         /\ \A n \in SnoozeDays : Snooze(id, n) /\ NoSuchTask(id) => Untouched
         /\ \A t \in SubTexts : AddSubtask(id, t) /\ NoSuchTask(id) => Untouched
         /\ \A sub \in 0..AbsentId :
              /\ \A v \in BOOLEAN :
                   SetSubtaskDone(id, sub, v) /\ NoSuchSub(id, sub) => Untouched
              /\ DeleteSubtask(id, sub) /\ NoSuchSub(id, sub) => Untouched]_vars

\* the ids of the tasks and subtasks of the collection
IdsIn(d) ==
    {d.rows[i].id : i \in 1..Len(d.rows)}
    \cup UNION {{d.rows[i].Subtasks.items[k].id : k \in 1..Len(d.rows[i].Subtasks.items)} :
                  i \in 1..Len(d.rows)}

\* the effect of add_task with a non-empty title, given the input lines
\* that become subtasks: one more task at the end, unfinished, with the due
\* date given, fresh ids, and one unfinished subtask per kept line in order
Appended(kept, due) ==
    /\ Len(df'.rows) = Len(df.rows) + 1
    /\ \A i \in 1..Len(df.rows) : df'.rows[i] = df.rows[i]
    /\ LET new == df'.rows[Len(df'.rows)]
           subs == new.Subtasks.items
       IN /\ new.id \notin IdsIn(df) \cup {NoId}
          /\ new.Done = FALSE
          /\ new.Due = due
          /\ new.Subtasks.kind = "list"
          /\ Len(subs) = Len(kept)
          /\ \A k \in 1..Len(subs) :
               /\ subs[k].done = FALSE
               /\ subs[k].id \notin IdsIn(df) \cup {NoId, new.id}
               /\ \A j \in 1..Len(subs) : j # k => subs[j].id # subs[k].id
    /\ file' = save_df(df')

C7_SnoozeFromNone ==
    [][\A id \in 0..AbsentId, n \in SnoozeDays :
         (Snooze(id, n) /\ Cardinality(Mask(df, id)) = 1) =>
            LET i == First(Mask(df, id))
            IN df'.rows[i].Due =
                 IF df.rows[i].Due >= 0 THEN df.rows[i].Due + n ELSE Today + n]_vars

\* C8: after load() every task has a non-empty id.
C8_LoadedIdsNonEmpty ==
    last.op = "load" => \A i \in 1..Len(df.rows) : df.rows[i].id # NoId

\* a file of the legacy layout, just loaded
LegacyLoaded ==
    /\ last.op = "load"
    /\ file.exists
    /\ LegacyCols \subseteq file.cols
    /\ "Subtasks" \notin file.cols

LegacyValues(i) == <<file.rows[i]["Subtask 1"], file.rows[i]["Subtask 2"]>>

\* the subtasks of row i are made from these legacy values, in order
MigratedFrom(i, kept) ==
    LET subs == df.rows[i].Subtasks.items
    IN /\ df.rows[i].Subtasks.kind = "list"
       /\ Len(subs) = Len(kept)
       /\ \A k \in 1..Len(subs) : subs[k].done = FALSE /\ subs[k].text = Strip(kept[k])

C10_SetDoneIdempotent ==
    [][(last'.op = "set_done" /\ last'.again) => (df' = df /\ file' = file)]_vars

\* the same set_done applied twice to an existing task
C10_Witness ==
    /\ last.op = "set_done"
    /\ last.again
    /\ \E i \in 1..Len(df.rows) : df.rows[i].id = last.id /\ df.rows[i].Done = (last.n = 1)

\* the rows of the groups, in the order they are shown
RECURSIVE Flat(_)
Flat(groups) == IF groups = <<>> THEN <<>> ELSE Head(groups).rows \o Flat(Tail(groups))

\* due date ascending with no due date last, then title ascending
InOrder(seq) ==
    \A k \in 1..(Len(seq) - 1) :
       \/ SortDue(seq[k].Due) < SortDue(seq[k + 1].Due)
       \/ /\ SortDue(seq[k].Due) = SortDue(seq[k + 1].Due)
          /\ TitleRank(seq[k].Task) <= TitleRank(seq[k + 1].Task)

\* the groups show each task of the partition once, under its due date
ShowsPartition(groups, done) ==
    LET part == {i \in 1..Len(df.rows) : df.rows[i].Done = done}
    IN /\ Len(Flat(groups)) = Cardinality(part)
       /\ \A i \in part : \E k \in 1..Len(Flat(groups)) : Flat(groups)[k] = Shown(df.rows[i])
       /\ \A g \in 1..Len(groups) :
            \A k \in 1..Len(groups[g].rows) : groups[g].rows[k].Due = groups[g].key

\* C11: the pending and the completed tasks are each shown grouped by due
\* date, the groups by ascending date with the "no due date" group last,
\* and the tasks of a group by ascending title.
C11_GroupedAndSorted ==
    shown.op = "render" =>
       /\ ShowsPartition(shown.pending, FALSE)
       /\ ShowsPartition(shown.completed, TRUE)
       /\ InOrder(Flat(shown.pending))
       /\ InOrder(Flat(shown.completed))

\* C12: status_indicator gives every due date one state: "no-date" when
\* there is none, "overdue" before today, "today" (the due-today state) on
\* the day, "upcoming" after it.
C12_StatusOfDueDate ==
    shown.op = "status" =>
       shown.status =
          IF shown.due \notin 0..MaxDay THEN "no-date"
          ELSE IF shown.due < Today THEN "overdue"
          ELSE IF shown.due = Today THEN "today"
          ELSE "upcoming"

\* the status of a task due today
C12_Witness == shown.op = "status" /\ shown.due = Today /\ shown.status = "today"

\* the spellings of true that load() is to accept
TruthyForms == {"true", "1", "yes", "True"}

\* C13: load() gives every task a boolean Done: true for the truthy
\* spellings, false for a missing cell or column and for any other value.
C13_DoneCoerced ==
    (last.op = "load" /\ file.exists) =>
       \A i \in 1..Len(df.rows) :
          df.rows[i].Done = ("Done" \in file.cols /\ file.rows[i]["Done"] \in TruthyForms)

\* no subtask of the collection has a blank text
NoBlankIn(d) ==
    \A i \in 1..Len(d.rows) :
       \A k \in 1..Len(d.rows[i].Subtasks.items) : ~Blank(d.rows[i].Subtasks.items[k].text)

\* no subtask entry of the file has a blank text
NoBlankInFile(f) ==
    \A i \in 1..Len(f.rows) :
       \A k \in 1..Len(f.rows[i]["Subtasks"].items) :
          ~Blank(f.rows[i]["Subtasks"].items[k].text)

\* C14: in every state no subtask in memory has an empty or
\* whitespace-only text, and whenever the file is written it holds no such
\* entry.
C14_NoBlankSubtask ==
    /\ []NoBlankIn(df)
    /\ [][file' # file => NoBlankInFile(file')]_vars

\* a file that held a blank entry, loaded and then saved without it
C14_Witness ==
    /\ last.op = "set_done"
    /\ Len(df.rows) = 1
    /\ last.id = df.rows[1].id
    /\ df.rows[1].Task = NaNTitle
    /\ df.rows[1].Due = NaT
    /\ Len(df.rows[1].Subtasks.items) = 1
    /\ df.rows[1].Subtasks.items[1].id >= FirstMint
    /\ file = save_df(df)
    /\ Len(file.rows[1]["Subtasks"].items) = 1

\* C15: add_subtask(id, text) on an existing task changes and saves
\* nothing when the text is blank after trimming; otherwise it appends one
\* subtask with the trimmed text, done = false and a fresh id at the end of
\* the task's subtasks, keeps the subtasks that were there, and saves.
C15_AddSubtaskAppends ==
    [][\A id \in 0..AbsentId, t \in SubTexts :
         (AddSubtask(id, t) /\ ~NoSuchTask(id)) =>
            IF Blank(t) THEN df' = df /\ file' = file
            ELSE LET i == First(Mask(df, id))
                     old == df.rows[i].Subtasks.items
                     new == df'.rows[i].Subtasks.items
                 IN /\ df'.rows[i].Subtasks.kind = "list"
                    /\ Len(new) = Len(old) + 1
                    /\ SubSeq(new, 1, Len(old)) = old
                    /\ new[Len(new)].text = Strip(t)
                    /\ new[Len(new)].done = FALSE
                    /\ new[Len(new)].id \notin IdsIn(df) \cup {NoId}
                    /\ last'.exc = "none"
                    /\ file' = save_df(df')]_vars

\* the done flags of the subtasks, task by task
SubDone(d) ==
    [i \in 1..Len(d.rows) |->
       [k \in 1..Len(d.rows[i].Subtasks.items) |-> d.rows[i].Subtasks.items[k].done]]

\* the Done flags of the tasks
TaskDone(d) == [i \in 1..Len(d.rows) |-> d.rows[i].Done]

SubtaskOps == {"add_subtask", "set_subtask_done", "delete_subtask"}

\* C16: set_done changes no subtask's done flag, and set_subtask_done,
\* add_subtask and delete_subtask change no task's Done flag, also when
\* every subtask of the task is done afterwards.
C16_DoneIndependent ==
    [][/\ last'.op = "set_done" => SubDone(df') = SubDone(df)
       /\ last'.op \in SubtaskOps => TaskDone(df') = TaskDone(df)]_vars

\* a pending task whose subtasks have all just become done
C16_Witness ==
    /\ last.op = "set_subtask_done"
    /\ last.n = 1
    /\ last.exc = "none"
    /\ \E i \in 1..Len(df.rows) :
         /\ df.rows[i].id = last.id
         /\ df.rows[i].Done = FALSE
         /\ df.rows[i].Subtasks.items # <<>>
         /\ \A k \in 1..Len(df.rows[i].Subtasks.items) : df.rows[i].Subtasks.items[k].done
         /\ file = save_df(df)

\* the subtask ids of every task are pairwise distinct
SubIdsUnique(d) ==
    \A i \in 1..Len(d.rows) :
       \A j, k \in 1..Len(d.rows[i].Subtasks.items) :
          j # k => d.rows[i].Subtasks.items[j].id # d.rows[i].Subtasks.items[k].id

\* C17: subtask ids are unique within their task in every state;
\* set_subtask_done on a subtask of the task sets the flag of that one
\* subtask and keeps the others, and delete_subtask removes that one
\* subtask and keeps the others in their order.
C17_ExactlyOneSubtask ==
    /\ []SubIdsUnique(df)
    /\ [][\A id \in 0..AbsentId, sub \in 0..AbsentId :
            ~NoSuchSub(id, sub) =>
               LET i == First(Mask(df, id))
                   old == df.rows[i].Subtasks.items
                   new == df'.rows[i].Subtasks.items
               IN /\ \A v \in BOOLEAN :
                       SetSubtaskDone(id, sub, v) =>
                          /\ Len(new) = Len(old)
                          /\ \A k \in 1..Len(old) :
                               new[k] = IF old[k].id = sub
                                        THEN [old[k] EXCEPT !.done = v] ELSE old[k]
                  /\ DeleteSubtask(id, sub) =>
                       new = SelectSeq(old, LAMBDA s : s.id # sub)]_vars

\* an entry of the stored list that is an {id, text, done} record with a
\* non-blank text
WellFormed(e) == e.isDict /\ ~Blank(e.text)

\* the ids the file holds
StoredIds(f) ==
    {f.rows[i]["id"] : i \in 1..Len(f.rows)}
    \cup UNION {{f.rows[i]["Subtasks"].items[k].id :
                   k \in 1..Len(f.rows[i]["Subtasks"].items)} : i \in 1..Len(f.rows)}

\* C18: a record with a structured subtask list loads with its
\* well-formed entries in order, without the malformed ones, a fresh id
\* given to each kept entry that has none; a structured field that cannot
\* be parsed loads as no subtasks.
C18_StructuredLoad ==
    (last.op = "load" /\ file.exists /\ "Subtasks" \in file.cols) =>
       \A i \in 1..Len(df.rows) :
          LET cell == file.rows[i]["Subtasks"]
              kept == IF cell.kind = "list" THEN SelectSeq(cell.items, WellFormed) ELSE <<>>
              subs == df.rows[i].Subtasks.items
          IN cell.kind # "empty" =>
                /\ df.rows[i].Subtasks.kind = "list"
                /\ Len(subs) = Len(kept)
                /\ \A k \in 1..Len(subs) :
                     /\ subs[k].text = kept[k].text
                     /\ subs[k].done = kept[k].done
                     /\ kept[k].id # NoId => subs[k].id = kept[k].id
                     /\ kept[k].id = NoId => subs[k].id \notin StoredIds(file)

\* the ids of the tasks are pairwise distinct
TaskIdsUnique(d) ==
    \A i, j \in 1..Len(d.rows) : i # j => d.rows[i].id # d.rows[j].id

\* C19: task ids are unique in every state reached from an empty or a
\* freshly loaded collection, so an operation given an id acts on at most
\* one task.
C19_TaskIdsUnique == TaskIdsUnique(df) /\ \A id \in 0..AbsentId : Cardinality(Mask(df, id)) <= 1

AddressedOps ==
    {"set_done", "edit_task", "snooze", "add_subtask", "set_subtask_done", "delete_subtask"}

\* the tasks a step changes
Changed == {i \in 1..Len(df.rows) : i > Len(df'.rows) \/ df'.rows[i] # df.rows[i]}

\* C20: an operation given a task id changes the task it is addressed to
\* and leaves every other task as it was, in every field, and leaves the
\* number and the order of the tasks as they were.
C20_OtherTasksUnchanged ==
    [][last'.op \in AddressedOps =>
          /\ Len(df'.rows) = Len(df.rows)
          /\ Cardinality(Changed) <= 1]_vars

\* the collection a new session starts from
Reloaded == load_df(file, nextId).df

\* the collection and the file a handler leaves when it starts from d:
\* set_done, snooze and add_subtask
AfterSetDone(d, id, v) ==
    IF Mask(d, id) = {} THEN [df |-> d, file |-> file]
    ELSE [df |-> SetDoneDf(d, id, v), file |-> save_df(SetDoneDf(d, id, v))]

AfterSnooze(d, id, n) ==
    IF Mask(d, id) = {} THEN [df |-> d, file |-> file]
    ELSE [df |-> SnoozeDf(d, id, n), file |-> save_df(SnoozeDf(d, id, n))]

AfterAddSubtask(d, id, t) ==
    LET out == AddSubtaskOutcome(d, id, t, load_df(file, nextId).n)
    IN [df |-> out.df, file |-> IF out.save THEN save_df(out.df) ELSE file]

\* C21: after a sequence of task operations that left the collection
\* saved, the session that goes on with the collection in memory and a new
\* session that loads the file and is given the same next operation end
\* with field-wise equal collections and equal files.
C21_RestartEquivalence ==
    [][(last.op \in TaskOps /\ file = save_df(df)) =>
          \A id \in 0..AbsentId :
             /\ \A v \in BOOLEAN :
                  SetDone(id, v) =>
                     /\ Norm(AfterSetDone(Reloaded, id, v).df) = Norm(df')
                     /\ AfterSetDone(Reloaded, id, v).file = file'
             /\ \A n \in SnoozeDays :
                  Snooze(id, n) =>
                     /\ Norm(AfterSnooze(Reloaded, id, n).df) = Norm(df')
                     /\ AfterSnooze(Reloaded, id, n).file = file'
             /\ \A t \in SubTexts :
                  AddSubtask(id, t) =>
                     /\ Norm(AfterAddSubtask(Reloaded, id, t).df) = Norm(df')
                     /\ AfterAddSubtask(Reloaded, id, t).file = file']_vars

====
